---- MODULE Spec2Model ----
(***************************************************************************)
(* Model of scrap.py, the CPCB EPR dashboard scraper: the sidebar          *)
(* selection, scrape() with its one POST per (applicant type, status)      *)
(* combination, the row normalisation of tidy_rows(), the de-duplication   *)
(* of the collected rows, and the Excel / CSV download section.            *)
(***************************************************************************)
EXTENDS Integers, Sequences, FiniteSets, TLC

(***************************************************************************)
(* Bounds of the model.                                                    *)
(***************************************************************************)
\* a run visits at most MaxCalls combinations (|types| * |statuses|)
MaxCalls == 4
\* the weight of what a run's POSTs meet is at most MaxEvents: a record of
\* a returned table weighs one, a failure or a body of another shape two
MaxEvents == 3

(***************************************************************************)
(* Constants of the program.                                               *)
(***************************************************************************)
APPLICANT_TYPES == <<"Brand Owner", "Producer", "Importer">>

STATUSES_UI == <<"In Process", "Not Approved", "Registered">>

STATUS_MAP ==
    [ui \in {"In Process", "Not Approved", "Registered"} |->
        CASE ui = "In Process"   -> <<"InProgress", "In Process">>
          [] ui = "Not Approved" -> <<"notApproved", "Not Approved">>
          [] ui = "Registered"   -> <<"registered", "Registered">>]

PREFIX_MAP ==
    [a \in {"Brand Owner", "Producer", "Importer"} |->
        CASE a = "Brand Owner" -> "BO-"
          [] a = "Producer"    -> "Pro-"
          [] a = "Importer"    -> "Imp-"]

Columns == <<"Name", "Address", "Email", "Category">>

\* st.number_input(..., min_value=1, max_value=200000, value=100000, ...)
MinCount == 1
DefaultCount == 100000

(***************************************************************************)
(* JSON values as the response body may hold them: a tag t and a value v.  *)
(***************************************************************************)
JNull == [t |-> "null"]
JStr(s) == [t |-> "str", v |-> s]
JArr(s) == [t |-> "arr", v |-> s]
JObj(f) == [t |-> "obj", v |-> f]

\* a result of a Python expression: a value, or a raised exception
Value(x) == [ok |-> TRUE, val |-> x]
Raise(e) == [ok |-> FALSE, exc |-> e]

\* DictGet with the subscript d[key] in place of .get
DictGet_Subscript(d, key, default) ==
    IF d.t = "obj"
    THEN IF key \in DOMAIN d.v THEN Value(d.v[key]) ELSE Raise("KeyError")
    ELSE Raise("TypeError")

\* d.get(key, default): a dict method; any other JSON value has no .get
DictGet(d, key, default) ==
    IF d.t = "obj"
    THEN IF key \in DOMAIN d.v THEN Value(d.v[key]) ELSE Value(default)
    ELSE Raise("AttributeError")

\* x or "": JSON null and the empty string are falsy
OrEmpty(x) == IF x.t = "null" \/ (x.t = "str" /\ x.v = "") THEN "" ELSE x.v

EmptyDict == [k \in {} |-> JNull]

\* the keys of a dict, as iterating over it yields them
RECURSIVE SetToSeq(_)
SetToSeq(S) ==
    IF S = {} THEN <<>>
    ELSE LET k == CHOOSE x \in S : TRUE IN <<JStr(k)>> \o SetToSeq(S \ {k})

\* what "for row in rows" iterates over: the elements of a list, the
\* characters of a string, the keys of a dict; null is not iterable
Iterate(rows) ==
    CASE rows.t = "arr" -> Value(rows.v)
      [] rows.t = "str" -> Value([k \in 1..Len(rows.v) |-> JStr(SubSeq(rows.v, k, k))])
      [] rows.t = "obj" -> Value(SetToSeq(DOMAIN rows.v))
      [] OTHER -> Raise("TypeError")

\* build_payload with the label shown in the sidebar sent as status
build_payload_raw(status_api, status_text, applicant_type, count) ==
    [status |-> status_text,
     countValue |-> count,
     statusText |-> status_text,
     applicantType |-> applicant_type]

\* build_payload: the JSON body of the POST
build_payload(status_api, status_text, applicant_type, count) ==
    [status |-> status_api,
     countValue |-> count,
     statusText |-> status_text,
     applicantType |-> applicant_type]

\* one dict appended by tidy_rows for a row the three .get calls accept
TidyRow(company, address, email, label) ==
    [Name |-> OrEmpty(company),
     Address |-> OrEmpty(address),
     Email |-> OrEmpty(email),
     Category |-> label]

\* the loop of tidy_rows over the remaining elements, out being built
RECURSIVE TidyLoop(_, _, _)
TidyLoop(rest, label, out) ==
    IF rest = <<>> THEN Value(out)
    ELSE LET row == Head(rest)
             c == DictGet(row, "company", JStr(""))
             a == DictGet(row, "address", JStr(""))
             e == DictGet(row, "email", JStr(""))
         IN IF ~c.ok THEN c
            ELSE TidyLoop(Tail(rest), label,
                          Append(out, TidyRow(c.val, a.val, e.val, label)))

tidy_rows(rows, label) ==
    LET it == Iterate(rows)
    IN IF ~it.ok THEN it ELSE TidyLoop(it.val, label, <<>>)

\* data.get("data", {}).get("tableData", {}).get("bodyContent", [])
BodyContent(data) ==
    LET d == DictGet(data, "data", JObj(EmptyDict))
    IN IF ~d.ok THEN d
       ELSE LET td == DictGet(d.val, "tableData", JObj(EmptyDict))
            IN IF ~td.ok THEN td
               ELSE DictGet(td.val, "bodyContent", JArr(<<>>))

\* LookupStatus with STATUS_MAP.get(status_ui, (status_ui, status_ui))
LookupStatus_Default(status_ui) ==
    IF status_ui \in DOMAIN STATUS_MAP
    THEN Value(STATUS_MAP[status_ui]) ELSE Value(<<status_ui, status_ui>>)

\* the subscripts STATUS_MAP[status_ui] and PREFIX_MAP[applicant]
LookupStatus(status_ui) ==
    IF status_ui \in DOMAIN STATUS_MAP
    THEN Value(STATUS_MAP[status_ui]) ELSE Raise("KeyError")

LookupPrefix(applicant) ==
    IF applicant \in DOMAIN PREFIX_MAP
    THEN Value(PREFIX_MAP[applicant]) ELSE Raise("KeyError")

\* category_label without the applicant type's prefix
category_label_no_prefix(cat_prefix, status_text) == status_text

\* f"{cat_prefix}{status_text}"
category_label(cat_prefix, status_text) == cat_prefix \o status_text

\* the row appended by the except branch
SentinelRow(label, e) ==
    [Name |-> "", Address |-> "", Email |-> "",
     Category |-> label \o " (ERROR: " \o e \o ")"]

(***************************************************************************)
(* pandas: a frame is its index labels and its rows, column by column.     *)
(***************************************************************************)
DataFrame(collected_rows) ==
    [index |-> [k \in 1..Len(collected_rows) |-> k - 1],
     rows |-> [k \in 1..Len(collected_rows) |->
                  [c \in {"Name", "Address", "Email", "Category"} |->
                      collected_rows[k][c]]]]

\* keep="first": a row stays unless an equal row stands before it
KeptPositions(frame) ==
    {k \in 1..Len(frame.rows) : \A m \in 1..(k - 1) : frame.rows[m] # frame.rows[k]}

RECURSIVE Ascending(_)
Ascending(S) ==
    IF S = {} THEN <<>>
    ELSE LET m == CHOOSE x \in S : \A y \in S : x <= y
         IN <<m>> \o Ascending(S \ {m})

\* drop_duplicates with keep="last"
drop_duplicates_last(frame) ==
    LET keep == Ascending({k \in 1..Len(frame.rows) :
                    \A m \in (k + 1)..Len(frame.rows) : frame.rows[m] # frame.rows[k]})
    IN [index |-> [k \in 1..Len(keep) |-> frame.index[keep[k]]],
        rows |-> [k \in 1..Len(keep) |-> frame.rows[keep[k]]]]

drop_duplicates(frame) ==
    LET keep == Ascending(KeptPositions(frame))
    IN [index |-> [k \in 1..Len(keep) |-> frame.index[keep[k]]],
        rows |-> [k \in 1..Len(keep) |-> frame.rows[keep[k]]]]

reset_index(frame) ==
    [index |-> [k \in 1..Len(frame.rows) |-> k - 1], rows |-> frame.rows]

\* lines 117-119 of scrape
Finalize(collected_rows) ==
    reset_index(drop_duplicates(DataFrame(collected_rows)))

(***************************************************************************)
(* Excel export.                                                           *)
(***************************************************************************)
has_module(name, installed) == name \in installed

pick_excel_engine(installed) ==
    IF has_module("xlsxwriter", installed) THEN Value("xlsxwriter")
    ELSE IF has_module("openpyxl", installed) THEN Value("openpyxl")
    ELSE Raise("No Excel engine found. Install either 'xlsxwriter' or 'openpyxl' via requirements.txt.")

\* the sheet written by df.to_excel(writer, sheet_name="Scraped", index=False)
Workbook(frame, engine) ==
    [engine |-> engine,
     sheet |-> "Scraped",
     cells |-> <<Columns>> \o
               [k \in 1..Len(frame.rows) |->
                   [c \in 1..Len(Columns) |-> frame.rows[k][Columns[c]]]]]

\* writer_error: what pd.ExcelWriter / to_excel raises, "" when it succeeds
to_excel_bytes(frame, installed, writer_error) ==
    LET engine == pick_excel_engine(installed)
    IN IF ~engine.ok THEN engine
       ELSE IF writer_error # "" THEN Raise(writer_error)
       ELSE Value(<<Workbook(frame, engine.val), engine.val>>)

\* df.to_csv(index=False): the header line, then one line per row
to_csv(frame) ==
    <<Columns>> \o
    [k \in 1..Len(frame.rows) |->
        [c \in 1..Len(Columns) |-> frame.rows[k][Columns[c]]]]

ExcelWarning(e) ==
    "Excel export unavailable (" \o e \o "). Add these lines to requirements.txt if missing:\n\nopenpyxl==3.1.5\nxlsxwriter==3.2.0"

ExcelButton(data) ==
    [label |-> "Download Excel", data |-> data,
     file_name |-> "Scraped_dashboard.xlsx",
     mime |-> "application/vnd.openxmlformats-officedocument.spreadsheetml.sheet"]

CsvButton(data) ==
    [label |-> "Download CSV", data |-> data,
     file_name |-> "Scraped_dashboard.csv", mime |-> "text/csv"]

(***************************************************************************)
(* What the endpoint and the network may answer to one POST.               *)
(***************************************************************************)
Failed(e) == [kind |-> "exc", exc |-> e]
Answered(body) == [kind |-> "ok", body |-> body]

\* str(e) of the requests.RequestException: a timeout, a non-2xx status
\* (raise_for_status), a body that is no JSON (resp.json)
Failures ==
    {"Read timed out. (read timeout=60)",
     "500 Server Error: Internal Server Error",
     "Expecting value: line 1 column 1 (char 0)"}

RecA ==
    JObj([company |-> JStr("Acme Co"), address |-> JStr("123 Road"),
          email |-> JStr("a@x.com")])

\* address null, email absent
RecB == JObj([company |-> JStr("Acme Co"), address |-> JNull])

Records == {RecA, RecB}

Table(content) ==
    JObj([data |-> JObj([tableData |-> JObj([bodyContent |-> content])])])

\* bodies in which a key of data.tableData.bodyContent is missing
MissingBodies ==
    {JObj(EmptyDict),
     JObj([data |-> JObj(EmptyDict)]),
     JObj([data |-> JObj([tableData |-> JObj(EmptyDict)])])}

\* bodies that are valid JSON of another shape than the expected one
DeviantBodies ==
    {JArr(<<>>),
     JObj([data |-> JNull]),
     JObj([data |-> JObj([tableData |-> JStr("none")])]),
     Table(JNull),
     Table(JStr("")),
     Table(JArr(<<RecA, JNull>>))}

\* the tables of n records
TablesOf(n) == {Table(JArr(s)) : s \in [1..n -> Records]}

\* a body of the expected shape whose bodyContent is a list of records
IsTable(body) ==
    LET content == BodyContent(body)
    IN /\ content.ok
       /\ content.val.t = "arr"
       /\ body = Table(content.val)
       /\ \A k \in 1..Len(content.val.v) : content.val.v[k] \in Records

\* how much of the run's budget of events an outcome takes
Weight(o) ==
    IF o.kind = "ok" /\ IsTable(o.body)
    THEN Len(BodyContent(o.body).val.v)
    ELSE 2

RECURSIVE TotalWeight(_)
TotalWeight(log) ==
    IF log = <<>> THEN 0 ELSE Weight(Head(log)) + TotalWeight(Tail(log))

\* what a POST may meet when budget is left of MaxEvents
OutcomesWithin ==
    [budget \in 0..MaxEvents |->
        UNION {{Answered(b) : b \in TablesOf(n)} : n \in 0..budget}
        \cup (IF budget >= 2
              THEN {Failed(e) : e \in Failures}
                   \cup {Answered(b) : b \in MissingBodies \cup DeviantBodies}
              ELSE {})]

Outcomes(budget) == OutcomesWithin[budget]

(***************************************************************************)
(* State.                                                                  *)
(***************************************************************************)
VARIABLES
    pc,           \* where the script run stands
    sel_types,    \* selected_types
    sel_status,   \* selected_statuses
    count_value,  \* count_value
    i, j,         \* positions of the two loops of scrape
    collected,    \* the rows collected so far
    df,           \* the frame scrape returned
    calls,        \* the payloads posted to API_URL, in order
    responses,    \* what each POST met, in order
    error,        \* the exception that ended the run, "" if none
    st_warning,   \* the st.warning shown, "" if none
    excel_ok,
    engine_used,
    downloads     \* the st.download_button elements shown, in order

vars ==
    <<pc, sel_types, sel_status, count_value, i, j, collected, df, calls,
      responses, error, st_warning, excel_ok, engine_used, downloads>>

EmptyFrame == DataFrame(<<>>)

Range(s) == {s[k] : k \in 1..Len(s)}

\* what st.multiselect may return: options, each at most once, in the order
\* they were picked
Picks(options) ==
    {s \in UNION {[1..n -> Range(options)] : n \in 0..Len(options)} :
        \A a, b \in 1..Len(s) : a # b => s[a] # s[b]}

\* the picks made in the order the widget lists its options
PicksInOrder(options) ==
    {s \in Picks(options) :
        \A a, b \in 1..Len(s) :
            a < b => \E x, y \in 1..Len(options) :
                        x < y /\ options[x] = s[a] /\ options[y] = s[b]}

\* one run of the script is followed, from the sidebar to the downloads;
\* st.cache_data only tells on a later run with the same arguments
Init ==
    /\ pc = "idle"
    /\ sel_types = <<>>
    /\ sel_status = <<>>
    /\ count_value = DefaultCount
    /\ i = 1
    /\ j = 1
    /\ collected = <<>>
    /\ df = EmptyFrame
    /\ calls = <<>>
    /\ responses = <<>>
    /\ error = ""
    /\ st_warning = ""
    /\ excel_ok = TRUE
    /\ engine_used = ""
    /\ downloads = <<>>

\* scrape(selected_types, selected_statuses, count_value) is entered
EnterScrape(types, statuses, count) ==
    /\ sel_types' = types
    /\ sel_status' = statuses
    /\ count_value' = count
    /\ i' = 1
    /\ j' = 1
    /\ collected' = <<>>
    /\ IF types = <<>> \/ statuses = <<>>
       THEN /\ pc' = "returned"
            /\ df' = Finalize(<<>>)
       ELSE /\ pc' = "scrape"
            /\ df' = df
    /\ UNCHANGED <<calls, responses, error, st_warning, excel_ok,
                   engine_used, downloads>>

\* "Scrape Now" is pressed with the sidebar's values
RunWith(types, statuses, count) ==
    /\ pc = "idle"
    /\ IF types = <<>> \/ statuses = <<>>
       THEN /\ st_warning' = "Please select at least one **Applicant Type** and one **Status**."
            /\ pc' = "stopped"
            /\ sel_types' = types
            /\ sel_status' = statuses
            /\ count_value' = count
            /\ UNCHANGED <<i, j, collected, df, calls, responses, error,
                           excel_ok, engine_used, downloads>>
       ELSE EnterScrape(types, statuses, count)

\* the applicant types picked in any order, the statuses in the listed one
Run(most, counts) ==
    \E types \in Picks(APPLICANT_TYPES), statuses \in PicksInOrder(STATUSES_UI),
       count \in counts :
        /\ Len(types) * Len(statuses) <= most
        /\ RunWith(types, statuses, count)

\* the run ends with an exception nothing catches
Abort(e) ==
    /\ pc' = "aborted"
    /\ error' = e
    /\ UNCHANGED <<i, j, collected, df>>

\* Advance with the two loops nested the other way round
Advance_StatusOuter(rows) ==
    /\ collected' = rows
    /\ error' = error
    /\ IF i < Len(sel_types)
       THEN /\ i' = i + 1
            /\ j' = j
            /\ pc' = pc
            /\ df' = df
       ELSE IF j < Len(sel_status)
       THEN /\ i' = 1
            /\ j' = j + 1
            /\ pc' = pc
            /\ df' = df
       ELSE /\ i' = i
            /\ j' = j
            /\ pc' = "returned"
            /\ df' = Finalize(rows)

\* the loops move on; after the last combination scrape returns the frame
Advance(rows) ==
    /\ collected' = rows
    /\ error' = error
    /\ IF j < Len(sel_status)
       THEN /\ i' = i
            /\ j' = j + 1
            /\ pc' = pc
            /\ df' = df
       ELSE IF i < Len(sel_types)
       THEN /\ i' = i + 1
            /\ j' = 1
            /\ pc' = pc
            /\ df' = df
       ELSE /\ i' = i
            /\ j' = j
            /\ pc' = "returned"
            /\ df' = Finalize(rows)

\* Handle without the except branch: the failure ends the run
Handle_Reraises(o, label) ==
    IF o.kind = "exc"
    THEN /\ Abort("RequestException")
         /\ collected' = collected
    ELSE LET rows == BodyContent(o.body)
             tidy == IF rows.ok THEN tidy_rows(rows.val, label) ELSE rows
         IN IF tidy.ok THEN Advance(collected \o tidy.val) ELSE Abort(tidy.exc)

\* lines 96-115: the response o of the POST is handled
Handle(o, label) ==
    IF o.kind = "exc"
    THEN Advance(Append(collected, SentinelRow(label, o.exc)))
    ELSE LET rows == BodyContent(o.body)
             tidy == IF rows.ok THEN tidy_rows(rows.val, label) ELSE rows
         IN IF tidy.ok THEN Advance(collected \o tidy.val) ELSE Abort(tidy.exc)

\* one pass of the inner loop body, lines 81-115
ScrapeStep ==
    /\ pc = "scrape"
    /\ LET applicant == sel_types[i]
           status_ui == sel_status[j]
           status == LookupStatus(status_ui)
           cat_prefix == LookupPrefix(applicant)
       IN IF ~status.ok \/ ~cat_prefix.ok
          THEN /\ Abort("KeyError")
               /\ UNCHANGED <<calls, responses>>
          ELSE LET status_api == status.val[1]
                   status_text == status.val[2]
                   label == category_label(cat_prefix.val, status_text)
                   payload == build_payload(status_api, status_text, applicant, count_value)
               IN \E o \in Outcomes(MaxEvents - TotalWeight(responses)) :
                     /\ calls' = Append(calls, payload)
                     /\ responses' = Append(responses, o)
                     /\ Handle(o, label)
    /\ UNCHANGED <<sel_types, sel_status, count_value, st_warning, excel_ok,
                   engine_used, downloads>>

\* the record limit is left at its default
Next == Run(MaxCalls, {DefaultCount}) \/ ScrapeStep

Spec == Init /\ [][Next]_vars

(***************************************************************************)
(* The download section, lines 183-209, reached once scrape has returned.  *)
(***************************************************************************)
WriterErrors == {"", "[Errno 28] No space left on device"}

\* Downloads with the CSV button inside the "if excel_ok" block
Downloads_CsvUnderExcel ==
    /\ pc = "returned"
    /\ \E installed \in SUBSET {"xlsxwriter", "openpyxl"}, writer_error \in WriterErrors :
          LET made == to_excel_bytes(df, installed, writer_error)
          IN IF made.ok
             THEN /\ excel_ok' = TRUE
                  /\ engine_used' = made.val[2]
                  /\ st_warning' = st_warning
                  /\ downloads' = <<ExcelButton(made.val[1]), CsvButton(to_csv(df))>>
             ELSE /\ excel_ok' = FALSE
                  /\ engine_used' = ""
                  /\ st_warning' = ExcelWarning(made.exc)
                  /\ downloads' = <<>>
    /\ pc' = "done"
    /\ UNCHANGED <<sel_types, sel_status, count_value, i, j, collected, df,
                   calls, responses, error>>

Downloads ==
    /\ pc = "returned"
    /\ \E installed \in SUBSET {"xlsxwriter", "openpyxl"}, writer_error \in WriterErrors :
          LET made == to_excel_bytes(df, installed, writer_error)
          IN IF made.ok
             THEN /\ excel_ok' = TRUE
                  /\ engine_used' = made.val[2]
                  /\ st_warning' = st_warning
                  /\ downloads' = <<ExcelButton(made.val[1]), CsvButton(to_csv(df))>>
             ELSE /\ excel_ok' = FALSE
                  /\ engine_used' = ""
                  /\ st_warning' = ExcelWarning(made.exc)
                  /\ downloads' = <<CsvButton(to_csv(df))>>
    /\ pc' = "done"
    /\ UNCHANGED <<sel_types, sel_status, count_value, i, j, collected, df,
                   calls, responses, error>>

\* a run over one combination, followed through to its downloads
NextExport == Run(1, {MinCount, DefaultCount}) \/ ScrapeStep \/ Downloads

SpecExport == Init /\ [][NextExport]_vars

(***************************************************************************)
(* scrape called with arguments the sidebar would not have produced.       *)
(***************************************************************************)
DirectTypes == {<<"Producer">>, <<"Importer", "Brand Owner">>}

DirectStatuses ==
    {<<"Registered">>, <<"Pending">>, <<"Registered", "Pending">>,
     <<"Not Approved", "In Process">>}

DirectCounts == {-1, 0, 1}

ScrapeCall ==
    /\ pc = "idle"
    /\ \E types \in DirectTypes, statuses \in DirectStatuses, count \in DirectCounts :
          EnterScrape(types, statuses, count)

NextDirect == ScrapeCall \/ ScrapeStep

SpecDirect == Init /\ [][NextDirect]_vars

(***************************************************************************)
(* What the properties below speak of, written from the contract and not   *)
(* from the operators above.                                               *)
(***************************************************************************)
NCombos == Len(sel_types) * Len(sel_status)

\* the k-th combination, applicant type outer, status inner
ComboAt(k) ==
    <<sel_types[((k - 1) \div Len(sel_status)) + 1],
      sel_status[((k - 1) % Len(sel_status)) + 1]>>

\* the number of the combination the loops stand at
Pos == (i - 1) * Len(sel_status) + j

ExpectedPrefix(applicant) ==
    CASE applicant = "Brand Owner" -> "BO-"
      [] applicant = "Producer" -> "Pro-"
      [] applicant = "Importer" -> "Imp-"

ExpectedLabel(k) ==
    ExpectedPrefix(ComboAt(k)[1]) \o STATUS_MAP[ComboAt(k)[2]][2]

ExpectedSentinel(k) ==
    [Name |-> "", Address |-> "", Email |-> "",
     Category |-> ExpectedLabel(k) \o " (ERROR: " \o responses[k].exc \o ")"]

ExpectedField(e, key) ==
    IF e.t = "obj" /\ key \in DOMAIN e.v /\ e.v[key].t = "str"
    THEN e.v[key].v ELSE ""

ExpectedRow(e, label) ==
    [Name |-> ExpectedField(e, "company"),
     Address |-> ExpectedField(e, "address"),
     Email |-> ExpectedField(e, "email"),
     Category |-> label]

\* the records the k-th POST fetched
FetchedRecords(k) ==
    IF /\ responses[k].kind = "ok"
       /\ responses[k].body.t = "obj"
       /\ "data" \in DOMAIN responses[k].body.v
       /\ responses[k].body.v.data.t = "obj"
       /\ "tableData" \in DOMAIN responses[k].body.v.data.v
       /\ responses[k].body.v.data.v.tableData.t = "obj"
       /\ "bodyContent" \in DOMAIN responses[k].body.v.data.v.tableData.v
       /\ responses[k].body.v.data.v.tableData.v.bodyContent.t = "arr"
    THEN responses[k].body.v.data.v.tableData.v.bodyContent.v
    ELSE <<>>

\* the rows the k-th combination is to contribute, in order
ExpectedRowsOf(k) ==
    IF responses[k].kind = "exc" THEN <<ExpectedSentinel(k)>>
    ELSE [p \in 1..Len(FetchedRecords(k)) |->
             ExpectedRow(FetchedRecords(k)[p], ExpectedLabel(k))]

Count(s, x) == Cardinality({p \in 1..Len(s) : s[p] = x})

FirstPos(s, x) == CHOOSE p \in 1..Len(s) : s[p] = x /\ \A q \in 1..(p - 1) : s[q] # x

StartsWith(s, p) == Len(p) <= Len(s) /\ SubSeq(s, 1, Len(p)) = p

\* the body is a JSON object in which a key of data.tableData.bodyContent is
\* missing at one of the three levels
LacksPath(body) ==
    /\ body.t = "obj"
    /\ \/ "data" \notin DOMAIN body.v
       \/ /\ body.v.data.t = "obj"
          /\ \/ "tableData" \notin DOMAIN body.v.data.v
             \/ /\ body.v.data.v.tableData.t = "obj"
                /\ "bodyContent" \notin DOMAIN body.v.data.v.tableData.v

(***************************************************************************)
(* C1: when a run of scrape has ended, whatever each call met, exactly     *)
(* |applicantTypes| * |statuses| calls were issued, the k-th one for the   *)
(* k-th combination in applicant-outer / status-inner order.               *)
(***************************************************************************)
C1_OneCallPerCombination ==
    pc \in {"returned", "aborted"} =>
        /\ Len(calls) = NCombos
        /\ \A k \in 1..Len(calls) :
              /\ calls[k].applicantType = ComboAt(k)[1]
              /\ calls[k].statusText = STATUS_MAP[ComboAt(k)[2]][2]

(***************************************************************************)
(* C2: a call that fails at the network layer does not end the run: its    *)
(* combination has exactly one sentinel row (empty Name, Address, Email,   *)
(* Category = label + " (ERROR: " + description + ")"), the loops move to  *)
(* the next combination, and the returned table holds that row once along  *)
(* with every row fetched from the other combinations.                     *)
(***************************************************************************)
C2_FailureIsolated ==
    LET expected == [m \in 1..Len(responses) |-> ExpectedRowsOf(m)]
    IN \A k \in 1..Len(responses) :
          responses[k].kind = "exc" =>
              /\ ~(pc = "aborted" /\ k = Len(responses))
              /\ (pc = "scrape" /\ k = Len(responses)) => Pos = k + 1
              /\ Count(collected, expected[k][1]) = 1
              /\ Cardinality({p \in 1..Len(collected) :
                     StartsWith(collected[p].Category,
                                ExpectedLabel(k) \o " (ERROR: ")}) = 1
              /\ pc = "returned" =>
                    \A m \in 1..Len(responses) : \A p \in 1..Len(expected[m]) :
                        Count(df.rows, expected[m][p]) = 1

C2_Witness ==
    /\ pc = "returned"
    /\ NCombos >= 2
    /\ responses[2].kind = "exc"
    /\ FetchedRecords(1) # <<>>
    /\ Len(df.rows) = 2

(***************************************************************************)
(* C3: a 2xx JSON object in which a key of data.tableData.bodyContent is   *)
(* missing adds no row, data or sentinel, to the accumulator and the run   *)
(* goes on with the next combination.                                      *)
(***************************************************************************)
C3_MissingPathAddsNothing ==
    [][(/\ pc = "scrape"
        /\ Len(responses') = Len(responses) + 1
        /\ responses'[Len(responses')].kind = "ok"
        /\ LacksPath(responses'[Len(responses')].body))
       => /\ collected' = collected
          /\ error' = ""
          /\ IF Pos < NCombos
             THEN pc' = "scrape" /\ (i' - 1) * Len(sel_status) + j' = Pos + 1
             ELSE pc' = "returned"]_vars

C3_Witness ==
    /\ pc = "returned"
    /\ NCombos >= 2
    /\ responses[1].kind = "ok"
    /\ LacksPath(responses[1].body)
    /\ "data" \in DOMAIN responses[1].body.v
    /\ collected # <<>>
    /\ \A r \in Range(collected) : r.Name # ""

(***************************************************************************)
(* C4: normalisation never raises: no JSON body of a 2xx response ends the *)
(* run with an exception.                                                  *)
(***************************************************************************)
C4_NormalizationNeverRaises ==
    ~(pc = "aborted" /\ responses[Len(responses)].kind = "ok")

(***************************************************************************)
(* C5: the returned table is the accumulated rows without exact            *)
(* duplicates: no two of its rows are equal, each accumulated row is in it *)
(* once, the rows stand in the order of their first occurrences, and it    *)
(* has no more rows than were accumulated.                                 *)
(***************************************************************************)
C5_Deduplicated ==
    pc = "returned" =>
        /\ \A a, b \in 1..Len(df.rows) : a # b => df.rows[a] # df.rows[b]
        /\ Range(df.rows) = Range(collected)
        /\ \A a, b \in 1..Len(df.rows) :
              a < b => FirstPos(collected, df.rows[a]) < FirstPos(collected, df.rows[b])
        /\ Len(df.rows) <= Len(collected)

C5_Witness ==
    /\ pc = "returned"
    /\ Len(collected) = 3
    /\ collected[1] = collected[3]
    /\ collected[1] # collected[2]
    /\ Len(df.rows) = 2

\* the combination a row of the table comes from, expected[k] being the rows
\* the k-th combination is to contribute
OriginIn(expected, row) ==
    CHOOSE k \in 1..Len(expected) : Count(expected[k], row) > 0

(***************************************************************************)
(* C6: in the returned table the rows of an earlier combination (applicant *)
(* type outer, status inner) stand before the rows of a later one, and the *)
(* rows of one combination stand in the order the endpoint returned them.  *)
(***************************************************************************)
C6_CombinationOrder ==
    pc = "returned" =>
        \A expected \in {[k \in 1..Len(responses) |-> ExpectedRowsOf(k)]} :
           /\ \A a \in 1..Len(df.rows) :
                 \E k \in 1..Len(expected) : Count(expected[k], df.rows[a]) > 0
           /\ \A origin \in {[a \in 1..Len(df.rows) |-> OriginIn(expected, df.rows[a])]} :
                 \A a, b \in 1..Len(df.rows) :
                    a < b =>
                        /\ origin[a] <= origin[b]
                        /\ origin[a] = origin[b] =>
                              FirstPos(expected[origin[a]], df.rows[a])
                                  < FirstPos(expected[origin[b]], df.rows[b])

C6_Witness ==
    /\ pc = "returned"
    /\ Len(sel_types) = 2
    /\ Len(sel_status) = 2
    /\ Len(FetchedRecords(2)) = 2
    /\ Len(FetchedRecords(3)) = 1
    /\ Len(df.rows) = 3

(***************************************************************************)
(* C7: every row of the accumulator and of the returned table has a        *)
(* Category that starts with the prefix of its combination's applicant     *)
(* type (BO-, Pro-, Imp-) followed by the combination's API status text;   *)
(* a data row's Category is exactly that, a failure row's has the          *)
(* " (ERROR: ...)" annotation after it.                                    *)
(***************************************************************************)
C7_CategoryOfCombination ==
    \A row \in Range(collected) \cup Range(df.rows) :
        \E k \in 1..Len(responses) :
            LET prefix == ExpectedPrefix(ComboAt(k)[1])
                text == STATUS_MAP[ComboAt(k)[2]][2]
            IN /\ StartsWith(row.Category, prefix)
               /\ StartsWith(row.Category, prefix \o text)
               /\ \/ responses[k].kind = "ok" /\ row.Category = prefix \o text
                  \/ /\ responses[k].kind = "exc"
                     /\ row.Category =
                            prefix \o text \o " (ERROR: " \o responses[k].exc \o ")"
                     /\ row.Name = ""

C7_Witness ==
    /\ pc = "returned"
    /\ \E a, b \in 1..Len(df.rows) :
          /\ df.rows[a].Category = "Imp-Not Approved"
          /\ df.rows[b].Category =
                 "BO-In Process (ERROR: Read timed out. (read timeout=60))"

(***************************************************************************)
(* C8: the two exports are independent: when the spreadsheet cannot be     *)
(* made (no engine, or the writer fails) a warning with the remediation    *)
(* hint is shown, no spreadsheet download is offered, and the CSV download *)
(* of the same table is offered all the same.                              *)
(***************************************************************************)
Hint == "Add these lines to requirements.txt if missing:\n\nopenpyxl==3.1.5\nxlsxwriter==3.2.0"

EndsWith(s, p) ==
    Len(p) <= Len(s) /\ SubSeq(s, Len(s) - Len(p) + 1, Len(s)) = p

IsCsvOf(data, frame) ==
    /\ Len(data) = Len(frame.rows) + 1
    /\ data[1] = <<"Name", "Address", "Email", "Category">>
    /\ \A k \in 1..Len(frame.rows) :
          data[k + 1] = <<frame.rows[k].Name, frame.rows[k].Address,
                          frame.rows[k].Email, frame.rows[k].Category>>

C8_CsvIndependentOfExcel ==
    pc = "done" =>
        /\ Cardinality({k \in 1..Len(downloads) :
               downloads[k].file_name = "Scraped_dashboard.csv"}) = 1
        /\ \A k \in 1..Len(downloads) :
              downloads[k].file_name = "Scraped_dashboard.csv" =>
                  IsCsvOf(downloads[k].data, df)
        /\ Range(df.rows) = Range(collected)
        /\ excel_ok <=> \E k \in 1..Len(downloads) :
                            downloads[k].file_name = "Scraped_dashboard.xlsx"
        /\ ~excel_ok =>
              /\ StartsWith(st_warning, "Excel export unavailable (")
              /\ EndsWith(st_warning, Hint)

C8_Witness ==
    /\ pc = "done"
    /\ ~excel_ok
    /\ StartsWith(st_warning, "Excel export unavailable (No Excel engine found.")
    /\ Len(downloads) = 1
    /\ Len(df.rows) = 2

C10_PayloadOfMappedTokens ==
    \A k \in 1..Len(calls) :
        /\ ComboAt(k)[2] \in DOMAIN STATUS_MAP
        /\ calls[k] = [status |-> STATUS_MAP[ComboAt(k)[2]][1],
                       statusText |-> STATUS_MAP[ComboAt(k)[2]][2],
                       applicantType |-> ComboAt(k)[1],
                       countValue |-> count_value]
        /\ calls[k].status # ComboAt(k)[2]

C10_Witness ==
    /\ Len(calls) = 4
    /\ calls[2].status = "InProgress"
    /\ calls[3].status = "notApproved"
    /\ calls[3].applicantType = "Brand Owner"
    /\ calls[4].countValue = 0

====
